---- MODULE Spec2Model ----
(***************************************************************************)
(* The SQS command worker of parapet-org/ec2-worker (the revision with the *)
(* response queue): poll -> parse -> allowlist gate -> spawn -> respond -> *)
(* delete, several worker processes against one SQS queue.                 *)
(*                                                                         *)
(* Strings are sequences of one-character strings, so that split, trim and *)
(* the regular expressions of the source are computed, not assumed.        *)
(***************************************************************************)
EXTENDS Integers, Sequences, FiniteSets, TLC

(***************************************************************************)
(* Bounds of the model.                                                    *)
(***************************************************************************)
\* how many deliveries SQS makes in all (receipt handles 1..MaxDeliveries)
MaxDeliveries == 2

\* how long the strings given to a function examined on its own are
MaxLen == 3

\* the worker processes of a deployment, and of a one-worker deployment
WorkerIds == {"w1", "w2"}
OneWorker == {"w1"}

\* the messages sent to the input queue: one, or two at once
OneMessage  == {"m1"}
TwoMessages == {"m1", "m2"}

(***************************************************************************)
(* JavaScript string primitives.                                           *)
(***************************************************************************)
\* the characters \s and trim() treat as white space
WhiteSpace == {" "}

Min(S) == CHOOSE x \in S : \A y \in S : x <= y

Last(s) == s[Len(s)]

DropFirst(s, n) == SubSeq(s, n + 1, Len(s))

RECURSIVE TrimStart(_)
TrimStart(s) ==
  IF s # <<>> /\ Head(s) \in WhiteSpace THEN TrimStart(Tail(s)) ELSE s

RECURSIVE TrimEnd(_)
TrimEnd(s) ==
  IF s # <<>> /\ Last(s) \in WhiteSpace
  THEN TrimEnd(SubSeq(s, 1, Len(s) - 1)) ELSE s

\* String.prototype.trim
Trim(s) == TrimEnd(TrimStart(s))

\* s.split(c) for a one-character separator: "a//b" -> ["a","","b"], "" -> [""]
RECURSIVE SplitChar(_, _)
SplitChar(s, c) ==
  LET hits == {i \in 1..Len(s) : s[i] = c}
  IN IF hits = {} THEN <<s>>
     ELSE LET i == Min(hits)
          IN <<SubSeq(s, 1, i - 1)>> \o SplitChar(DropFirst(s, i), c)

\* s.split(/\s+/): one separator per run of white space; "" -> [""]
RECURSIVE SplitWs(_)
SplitWs(s) ==
  LET hits == {i \in 1..Len(s) : s[i] \in WhiteSpace}
  IN IF hits = {} THEN <<s>>
     ELSE LET i == Min(hits)
          IN <<SubSeq(s, 1, i - 1)>> \o SplitWs(TrimStart(DropFirst(s, i)))

\* the longest prefix of s holding none of the characters of stop
RECURSIVE TakeUntil(_, _)
TakeUntil(s, stop) ==
  IF s = <<>> \/ Head(s) \in stop THEN <<>>
  ELSE <<Head(s)>> \o TakeUntil(Tail(s), stop)

\* s.replace(/\]$/, '')
StripTrailingBracket(s) ==
  IF s # <<>> /\ Last(s) = "]" THEN SubSeq(s, 1, Len(s) - 1) ELSE s

\* the value JavaScript calls undefined (an absent field)
Undefined == [kind |-> "undefined"]

(***************************************************************************)
(* JSON values, as JSON.parse returns them.                                *)
(***************************************************************************)
JString(s)  == [kind |-> "string", val |-> s]
JArray(a)   == [kind |-> "array", items |-> a]
JNumber(n)  == [kind |-> "number", num |-> n]
JNull       == [kind |-> "null"]
JObject(command, args, cwd) ==
  [kind |-> "object", command |-> command, args |-> args, cwd |-> cwd]

\* JavaScript truthiness of a value (the left operand of && and ||)
Truthy(v) ==
  CASE v.kind = "undefined" -> FALSE
    [] v.kind = "null"      -> FALSE
    [] v.kind = "string"    -> v.val # <<>>
    [] v.kind = "number"    -> v.num # 0
    [] OTHER                -> TRUE

\* v.name: reading a property of null or undefined throws a TypeError,
\* of an object gives the field, of any other value gives undefined
PropertyThrows(v) == v.kind \in {"null", "undefined"}

(***************************************************************************)
(* A message body.  A body is either a text that JSON.parse rejects        *)
(* (json = FALSE, value = the raw text) or the text of one JSON value      *)
(* (json = TRUE, value = what JSON.parse returns).                         *)
(***************************************************************************)
TextBody(t) == [json |-> FALSE, value |-> JString(t)]
JsonBody(v) == [json |-> TRUE, value |-> v]

\* the raw body; after JSON.parse succeeded the source reads it again only
\* when parsed.command threw, that is for the JSON literal null
RawText(body) ==
  IF ~body.json THEN body.value.val
  ELSE CASE body.value.kind = "null" -> <<"n","u","l","l">>

(***************************************************************************)
(* Configuration and the allowlist.                                        *)
(***************************************************************************)
ALLOWLIST ==
  { <<"l","s">>, <<"g","r","e","p">>, <<"g","i","t">>, <<"c","a","t">>,
    <<"e","c","h","o">>, <<"p","w","d">>, <<"w","h","o","a","m","i">>,
    <<"d","a","t","e">>, <<"u","n","a","m","e">>, <<"n","p","m">>,
    <<"n","p","x">>, <<"b","u","n">> }

\* faulty variant: the gate takes the first word of the command, path and all
BaseCommand_whole(command) == SplitWs(Trim(command))[1]

\* faulty variant: a receive that asks for a batch of two
MaxNumberOfMessages_batch == 1 + 1

\* ReceiveMessageCommand.MaxNumberOfMessages
MaxNumberOfMessages == 1

\* the base command the gate compares: first word of the last "/"-segment
BaseCommand(command) ==
  LET pathParts == SplitChar(command, "/")
      lastPart  == IF Last(pathParts) # <<>> THEN Last(pathParts) ELSE command
  IN SplitWs(Trim(lastPart))[1]

isCommandAllowed(command) == BaseCommand(command) \in ALLOWLIST

(***************************************************************************)
(* parseMessage: the descriptor of a body, or NoCommand (null).            *)
(***************************************************************************)
NoCommand == [kind |-> "null"]

CommandMessage(command, args, cwd) ==
  [kind |-> "command", command |-> command, args |-> args, cwd |-> cwd]

\* faulty variant: args keeps the command, { command: parts[0], args: parts }
FromParts_all(parts) == CommandMessage(parts[1], JArray(parts), Undefined)

\* { command: parts[0], args: parts.slice(1) }
FromParts(parts) == CommandMessage(parts[1], JArray(Tail(parts)), Undefined)

CommandEq == <<"c","o","m","m","a","n","d","=">>

\* body.match(/command=([^\]]+)/): the capture group, or <<>> for no match
\* (a match captures at least one character)
CommandMatch(body) ==
  LET n    == Len(CommandEq)
      hits == {i \in 1..(Len(body) - n) :
                 /\ SubSeq(body, i, i + n - 1) = CommandEq
                 /\ body[i + n] # "]"}
  IN IF hits = {} THEN <<>>
     ELSE TakeUntil(DropFirst(body, Min(hits) + n - 1), {"]"})

\* the catch block: the plain-text fallback on the raw body
parsePlainText(text) ==
  IF Trim(text) # <<>>
  THEN LET commandMatch == CommandMatch(text)
       IN IF commandMatch # <<>>
          THEN FromParts(SplitWs(StripTrailingBracket(Trim(commandMatch))))
          ELSE FromParts(SplitWs(Trim(text)))
  ELSE NoCommand

parseMessage(body) ==
  IF ~body.json THEN parsePlainText(RawText(body))          \* JSON.parse throws
  ELSE LET parsed == body.value
       IN IF parsed.kind = "string"
          THEN FromParts(SplitWs(Trim(parsed.val)))
          ELSE IF PropertyThrows(parsed)
          THEN parsePlainText(RawText(body))             \* parsed.command throws
          ELSE IF parsed.kind # "object" THEN NoCommand \* parsed.command undefined
          ELSE IF Truthy(parsed.command) /\ parsed.command.kind = "string"
          THEN CommandMessage(parsed.command.val,
                              IF Truthy(parsed.args) THEN parsed.args
                                                     ELSE JArray(<<>>),
                              parsed.cwd)
          ELSE NoCommand

(***************************************************************************)
(* executeCommand: the argument vector handed to Bun.spawn.                *)
(***************************************************************************)
\* ...args: the elements of an array, the characters of a string
Spread(args) == IF args.kind = "array" THEN args.items ELSE args.val

SpawnArgv(cmd) ==
  LET parts   == SplitWs(Trim(cmd.command))
      command == parts[1]
      args    == IF ~Truthy(cmd.args) THEN Tail(parts) ELSE Spread(cmd.args)
  IN <<command>> \o args

\* (cmd.args || []).join(" ") throws unless the value has a join method
JoinThrows(cmd) == Truthy(cmd.args) /\ cmd.args.kind # "array"

\* faulty variant: a process that ran to its exit counts as a success
ExitResult_ran(exitCode, stdout, stderr) ==
  [success |-> TRUE, output |-> stdout,
   error |-> IF stderr # <<>> THEN JString(stderr) ELSE Undefined,
   exitCode |-> exitCode]

\* the result of a process that ran to its exit
ExitResult(exitCode, stdout, stderr) ==
  [success |-> exitCode = 0, output |-> stdout,
   error |-> IF stderr # <<>> THEN JString(stderr) ELSE Undefined,
   exitCode |-> exitCode]

\* the result of the catch block of executeCommand
SpawnErrorResult(message) ==
  [success |-> FALSE, output |-> <<>>, error |-> JString(message),
   exitCode |-> 1]

\* faulty variant: the rejection reported as a success
RejectionResult_success(command) ==
  [success |-> TRUE, output |-> <<>>,
   error |-> JString(<<"Command \"">> \o command
                     \o <<"\" is not in the allowlist">>),
   exitCode |-> 0]

\* the result processMessage makes up for a rejected command
RejectionResult(command) ==
  [success |-> FALSE, output |-> <<>>,
   error |-> JString(<<"Command \"">> \o command
                     \o <<"\" is not in the allowlist">>),
   exitCode |-> 1]

(***************************************************************************)
(* getResponseQueueName                                                    *)
(***************************************************************************)
ResponsesSuffix == <<"-","r","e","s","p","o","n","s","e","s">>

getResponseQueueName(responseQueueName, queueUrl) ==
  IF responseQueueName # <<>> THEN responseQueueName
  ELSE LET segs == SplitChar(queueUrl, "/")      \* /\/[^\/]+$/
       IN IF Len(segs) >= 2 /\ Last(segs) # <<>>
          THEN Last(segs) \o ResponsesSuffix
          ELSE <<>>

\* faulty variant: the MessageId goes before the CorrelationId attribute
CorrelationIdOf_messageIdFirst(message) ==
  IF message.MessageId # "" THEN message.MessageId
  ELSE IF message.CorrelationId # "" THEN message.CorrelationId
  ELSE ""

\* message.MessageAttributes?.CorrelationId?.StringValue || message.MessageId || ""
CorrelationIdOf(message) ==
  IF message.CorrelationId # "" THEN message.CorrelationId
  ELSE IF message.MessageId # "" THEN message.MessageId
  ELSE ""

\* the body sendResponse serializes, as its consumer decodes it
ResponseBody(correlationId, result) ==
  [correlationId |-> correlationId,
   success  |-> result.success,
   stdout   |-> result.output,
   stderr   |-> IF Truthy(result.error) THEN result.error.val ELSE <<>>,
   exitCode |-> result.exitCode]

(***************************************************************************)
(* JSON.stringify of the response, and JSON.parse by its consumer.  The    *)
(* text of an object is kept as the texts of its members.                  *)
(***************************************************************************)
Quote     == "\""
Backslash == "\\"

\* faulty variant: the characters of a string are written as they are
JsonEscape_raw(s) == s

\* the characters of a string as JSON writes them
RECURSIVE JsonEscape(_)
JsonEscape(s) ==
  IF s = <<>> THEN <<>>
  ELSE (IF Head(s) \in {Quote, Backslash} THEN <<Backslash, Head(s)>>
                                           ELSE <<Head(s)>>)
       \o JsonEscape(Tail(s))

RECURSIVE JsonUnescape(_)
JsonUnescape(t) ==
  IF t = <<>> THEN <<>>
  ELSE IF Head(t) = Backslash /\ Len(t) >= 2
  THEN <<t[2]>> \o JsonUnescape(DropFirst(t, 2))
  ELSE <<Head(t)>> \o JsonUnescape(Tail(t))

StringText(s)  == <<Quote>> \o JsonEscape(s) \o <<Quote>>
ParseString(t) == JsonUnescape(SubSeq(t, 2, Len(t) - 1))

BooleanText(b)  == IF b THEN <<"t","r","u","e">> ELSE <<"f","a","l","s","e">>
ParseBoolean(t) == t = <<"t","r","u","e">>

Digits == <<"0","1","2","3","4","5","6","7","8","9">>

RECURSIVE NumberText(_)
NumberText(n) ==
  IF n < Len(Digits) THEN <<Digits[n + 1]>>
  ELSE NumberText(n \div Len(Digits)) \o <<Digits[(n % Len(Digits)) + 1]>>

RECURSIVE ParseNumber(_)
ParseNumber(t) ==
  IF t = <<>> THEN 0
  ELSE ParseNumber(SubSeq(t, 1, Len(t) - 1)) * Len(Digits)
       + (CHOOSE d \in 0..(Len(Digits) - 1) : Digits[d + 1] = Last(t))

\* JSON.stringify(responseBody)
Stringify(responseBody) ==
  [correlationId |-> StringText(<<responseBody.correlationId>>),
   success  |-> BooleanText(responseBody.success),
   stdout   |-> StringText(responseBody.stdout),
   stderr   |-> StringText(responseBody.stderr),
   exitCode |-> NumberText(responseBody.exitCode)]

\* JSON.parse(MessageBody), by the consumer of the response queue
ParseResponse(text) ==
  [correlationId |-> ParseString(text.correlationId)[1],
   success  |-> ParseBoolean(text.success),
   stdout   |-> ParseString(text.stdout),
   stderr   |-> ParseString(text.stderr),
   exitCode |-> ParseNumber(text.exitCode)]

(***************************************************************************)
(* The inputs of the model.                                                *)
(***************************************************************************)
\* "ls -l": the string form, an allowed command
BodyLs == JsonBody(JString(<<"l","s"," ","-","l">>))
\* {"command":"rm","args":["-r"]}: the object form, a rejected command
BodyRm == JsonBody(JObject(JString(<<"r","m">>), JArray(<< <<"-","r">> >>),
                           Undefined))
\* {"command":"rm /ls"}: the object form, white space and a path in command
BodyRmPath == JsonBody(JObject(JString(<<"r","m"," ","/","l","s">>),
                               Undefined, Undefined))
\* {"command":"ls","args":"-l"}: the object form, args not an array
BodyArgsString == JsonBody(JObject(JString(<<"l","s">>),
                                   JString(<<"-","l">>), Undefined))
\* the empty body
BodyEmpty == TextBody(<<>>)
\* 7: JSON, neither a string nor an object
BodyNumber == JsonBody(JNumber(7))

Bodies == {BodyLs, BodyRm, BodyRmPath, BodyArgsString, BodyEmpty, BodyNumber}

\* bodies that are executed, rejected, dropped as invalid, and that throw
IdBodies == {BodyLs, BodyRm, BodyArgsString, BodyEmpty}

\* the CorrelationId attribute of a request ("" when the sender set none)
CorrelationIds == {"", "corr"}

\* the environment, as <<SQS_QUEUE_URL, RESPONSE_QUEUE_NAME>>: no address;
\* an address with a last segment; an address with none, without and with
\* a name for the response queue
Environments ==
  { << <<>>, <<>> >>,
    << <<"h","/","q">>, <<>> >>,
    << <<"h","/">>, <<>> >>,
    << <<"h","/">>, <<"r">> >> }

\* what a spawned process can end with: exit code, stdout, stderr
ProcessOutcomes == { <<0, <<"o">>, <<>>>>, <<2, <<>>, <<"e">>>> }

VARIABLES
  QUEUE_URL,            \* process.env.SQS_QUEUE_URL || ""
  RESPONSE_QUEUE_NAME,  \* process.env.RESPONSE_QUEUE_NAME || ""
  message,              \* the messages sent to the input queue
  visibility,           \* SQS: "visible", "inflight" or "deleted", per message
  receipts,             \* SQS: how many receipt handles each message was given
  pc,                   \* where each worker process stands
  exitStatus,           \* "running", or the exit status "0" or "1" of a worker
  batch,                \* response.Messages still to process, per worker
  result,               \* the ExecutionResult a worker is about to publish
  delivery,             \* the life of every delivery (message, receipt handle)
  spawns,               \* every call of Bun.spawn
  responses,            \* the messages that reached the response queue
  overrun,              \* messages whose visibility timeout lapsed in flight
  call                  \* a function examined on its own: arguments and return

vars == <<QUEUE_URL, RESPONSE_QUEUE_NAME, message, visibility, receipts, pc,
          exitStatus, batch, result, delivery, spawns, responses, overrun,
          call>>

\* what no step of a worker changes
config == <<QUEUE_URL, RESPONSE_QUEUE_NAME, message, call>>

\* no function is examined on its own
NoCall == [fn |-> "none"]

Workers  == DOMAIN pc
Messages == DOMAIN message

\* a delivery: a message and the number of the receipt handle it was given
Deliveries == Messages \X (1..MaxDeliveries)

NoDelivery ==
  [worker |-> "", gate |-> "none", publish |-> "none", deletes |-> 0,
   deleted |-> FALSE, finished |-> "no"]

\* the state once the worker processes are started and the messages sent
Started ==
  /\ visibility = [m \in Messages |-> "visible"]
  /\ receipts = [m \in Messages |-> 0]
  /\ exitStatus = [w \in Workers |-> "running"]
  /\ batch = [w \in Workers |-> <<>>]
  /\ result = [w \in Workers |-> Undefined]
  /\ delivery = [d \in Deliveries |-> NoDelivery]
  /\ spawns = {}
  /\ responses = {}
  /\ overrun = {}
  /\ call = NoCall

\* two workers, one message: any body, any configuration
Init ==
  /\ \E env \in Environments :
       QUEUE_URL = env[1] /\ RESPONSE_QUEUE_NAME = env[2]
  /\ message \in [OneMessage -> [MessageId : {"id"}, Body : Bodies,
                                 CorrelationId : CorrelationIds]]
  /\ pc = [w \in WorkerIds |-> "start"]
  /\ Started

\* one worker, two messages in the queue at once (any body, and "ls -l"),
\* the response queue derived from the address of the input queue
InitBatch ==
  /\ QUEUE_URL = <<"h","/","q">>
  /\ RESPONSE_QUEUE_NAME = <<>>
  /\ message \in {f \in [TwoMessages -> [MessageId : {"id"}, Body : Bodies,
                                          CorrelationId : {""}]] :
                    f["m2"].Body = BodyLs}
  /\ pc = [w \in OneWorker |-> "start"]
  /\ Started

\* one worker, two messages told apart by their ids: the first with neither
\* a CorrelationId attribute nor a MessageId, with a MessageId only, or with
\* both; the second with both, and "ls -l" as its body
InitIds ==
  /\ QUEUE_URL = <<"h","/","q">>
  /\ RESPONSE_QUEUE_NAME = <<>>
  /\ message \in {f \in [TwoMessages -> [MessageId : {"", "id", "id2"},
                                          Body : IdBodies,
                                          CorrelationId : {"", "corr", "corr2"}]] :
                    /\ f["m1"].MessageId \in {"", "id"}
                    /\ f["m1"].CorrelationId \in {"", "corr"}
                    /\ f["m1"].MessageId = "" => f["m1"].CorrelationId = ""
                    /\ f["m2"] = [MessageId |-> "id2", Body |-> BodyLs,
                                  CorrelationId |-> "corr2"]}
  /\ pc = [w \in OneWorker |-> "start"]
  /\ Started

\* one worker, one message: any body, with and without a CorrelationId
InitAlone ==
  /\ QUEUE_URL = <<"h","/","q">>
  /\ RESPONSE_QUEUE_NAME = <<>>
  /\ message \in [OneMessage -> [MessageId : {"id"}, Body : Bodies,
                                 CorrelationId : CorrelationIds]]
  /\ pc = [w \in OneWorker |-> "start"]
  /\ Started

(***************************************************************************)
(* main and the signal handlers.                                           *)
(***************************************************************************)
\* process.exit(status)
Exit(w, status) ==
  /\ pc' = [pc EXCEPT ![w] = "exited"]
  /\ exitStatus' = [exitStatus EXCEPT ![w] = status]

\* faulty variant: main enters the loop without the check of QUEUE_URL
main_unchecked(w) ==
  /\ pc[w] = "start"
  /\ pc' = [pc EXCEPT ![w] = "poll"]
  /\ UNCHANGED <<config, visibility, receipts, exitStatus, batch, result,
                 delivery, spawns, responses, overrun>>

\* main up to the loop: the check of QUEUE_URL
main(w) ==
  /\ pc[w] = "start"
  /\ IF QUEUE_URL = <<>>
     THEN Exit(w, "1")
     ELSE pc' = [pc EXCEPT ![w] = "poll"] /\ UNCHANGED exitStatus
  /\ UNCHANGED <<config, visibility, receipts, batch, result, delivery,
                 spawns, responses, overrun>>

\* the loop of main: await setTimeout(POLL_INTERVAL), then pollQueue again
main_Delay(w) ==
  /\ pc[w] = "sleep"
  /\ pc' = [pc EXCEPT ![w] = "poll"]
  /\ UNCHANGED <<config, visibility, receipts, exitStatus, batch, result,
                 delivery, spawns, responses, overrun>>

\* faulty variant: the handler only notes the signal, the loop goes on
Signal_noted(w) ==
  /\ exitStatus[w] = "running"
  /\ pc[w] # "exited"
  /\ exitStatus' = [exitStatus EXCEPT ![w] = "0"]
  /\ UNCHANGED <<config, visibility, receipts, pc, batch, result, delivery,
                 spawns, responses, overrun>>

\* process.on("SIGINT" / "SIGTERM"): process.exit(0).  The handlers run from
\* the event loop, so not before main has run to its first await
Signal(w) ==
  /\ pc[w] \notin {"start", "exited"}
  /\ Exit(w, "0")
  /\ UNCHANGED <<config, visibility, receipts, batch, result, delivery,
                 spawns, responses, overrun>>

(***************************************************************************)
(* pollQueue                                                               *)
(***************************************************************************)
RECURSIVE SumOver(_, _)
SumOver(f, S) ==
  IF S = {} THEN 0
  ELSE LET x == CHOOSE x \in S : TRUE IN f[x] + SumOver(f, S \ {x})

\* the messages SQS may return to one receive: visible ones, in any order
Receivable(n) ==
  {ms \in [1..n -> Messages] :
     /\ SumOver(receipts, Messages) + n <= MaxDeliveries
     /\ \A i \in 1..n : visibility[ms[i]] = "visible"
     /\ \A i, j \in 1..n : ms[i] = ms[j] => i = j}

\* sqsClient.send(ReceiveMessageCommand) returns messages
pollQueue_Receive(w) ==
  /\ pc[w] = "poll"
  /\ \E n \in 1..MaxNumberOfMessages : \E ms \in Receivable(n) :
       LET got == {ms[i] : i \in 1..n}
       IN /\ visibility' = [m \in Messages |->
                              IF m \in got THEN "inflight" ELSE visibility[m]]
          /\ receipts' = [m \in Messages |->
                            IF m \in got THEN receipts[m] + 1 ELSE receipts[m]]
          /\ batch' = [batch EXCEPT ![w] =
                         [i \in 1..n |-> <<ms[i], receipts[ms[i]] + 1>>]]
          /\ delivery' = [d \in Deliveries |->
                            IF d[1] \in got /\ d[2] = receipts[d[1]] + 1
                            THEN [NoDelivery EXCEPT !.worker = w]
                            ELSE delivery[d]]
  /\ pc' = [pc EXCEPT ![w] = "process"]
  /\ UNCHANGED <<config, exitStatus, result, spawns, responses, overrun>>

\* the receive returns no message: pollQueue returns
pollQueue_Empty(w) ==
  /\ pc[w] = "poll"
  /\ pc' = [pc EXCEPT ![w] = "sleep"]
  /\ UNCHANGED <<config, visibility, receipts, exitStatus, batch, result,
                 delivery, spawns, responses, overrun>>

\* faulty variant: pollQueue has no catch, the fault of the receive rejects
\* main and main().catch exits with status 1
pollQueue_ReceiveFails_fatal(w) ==
  /\ pc[w] = "poll"
  /\ Exit(w, "1")
  /\ UNCHANGED <<config, visibility, receipts, batch, result, delivery,
                 spawns, responses, overrun>>

\* the receive throws: the catch of pollQueue logs, pollQueue returns
pollQueue_ReceiveFails(w) ==
  /\ pc[w] = "poll"
  /\ pc' = [pc EXCEPT ![w] = "sleep"]
  /\ UNCHANGED <<config, visibility, receipts, exitStatus, batch, result,
                 delivery, spawns, responses, overrun>>

(***************************************************************************)
(* processMessage                                                          *)
(***************************************************************************)
Current(w) == batch[w][1]

\* processMessage returns: the for loop of pollQueue takes the next message
Return(w) ==
  /\ batch' = [batch EXCEPT ![w] = Tail(batch[w])]
  /\ pc' = [pc EXCEPT ![w] = IF Tail(batch[w]) = <<>> THEN "sleep"
                             ELSE "process"]
  /\ result' = [result EXCEPT ![w] = Undefined]

\* processMessage throws: the catch of pollQueue ends the for loop
Throw(w) ==
  /\ batch' = [batch EXCEPT ![w] = <<>>]
  /\ pc' = [pc EXCEPT ![w] = "sleep"]
  /\ result' = [result EXCEPT ![w] = Undefined]

\* faulty variant: sendResponse not awaited, the delete goes first
Respond_notAwaited(correlationId, responseQueueName) ==
  IF correlationId = "" THEN [pc |-> "delete", publish |-> "noCorrelationId"]
  ELSE IF responseQueueName = <<>>
  THEN [pc |-> "delete", publish |-> "notConfigured"]
  ELSE [pc |-> "delete", publish |-> "pending"]

\* if (correlationId) await sendResponse(correlationId, result), up to its
\* first await: where the worker stands next and what became of the publication
Respond(correlationId, responseQueueName) ==
  IF correlationId = "" THEN [pc |-> "delete", publish |-> "noCorrelationId"]
  ELSE IF responseQueueName = <<>>
  THEN [pc |-> "delete", publish |-> "notConfigured"]
  ELSE [pc |-> "getQueueUrl", publish |-> "pending"]

RespondNow(w) ==
  Respond(CorrelationIdOf(message[Current(w)[1]]),
          getResponseQueueName(RESPONSE_QUEUE_NAME, QUEUE_URL))

\* faulty variant: the invalid message is deleted before the return
processMessage_Invalid_deletes(w) ==
  /\ pc[w] = "process"
  /\ parseMessage(message[Current(w)[1]].Body) = NoCommand
  /\ delivery' = [delivery EXCEPT ![Current(w)] =
                    [@ EXCEPT !.gate = "parseFailed", !.deletes = @ + 1,
                              !.deleted = TRUE, !.finished = "returned"]]
  /\ visibility' = [visibility EXCEPT ![Current(w)[1]] = "deleted"]
  /\ Return(w)
  /\ UNCHANGED <<config, receipts, exitStatus, spawns, responses, overrun>>

\* parseMessage returns null: log and return
processMessage_Invalid(w) ==
  /\ pc[w] = "process"
  /\ parseMessage(message[Current(w)[1]].Body) = NoCommand
  /\ delivery' = [delivery EXCEPT ![Current(w)] =
                    [@ EXCEPT !.gate = "parseFailed", !.finished = "returned"]]
  /\ Return(w)
  /\ UNCHANGED <<config, visibility, receipts, exitStatus, spawns, responses,
                 overrun>>

\* faulty variant: the rejected message is logged and left, as an invalid
\* one is
processMessage_Rejected_returns(w) ==
  /\ pc[w] = "process"
  /\ \E cmd \in {parseMessage(message[Current(w)[1]].Body)} :
        cmd # NoCommand /\ ~isCommandAllowed(cmd.command)
  /\ delivery' = [delivery EXCEPT ![Current(w)] =
                    [@ EXCEPT !.gate = "rejected", !.finished = "returned"]]
  /\ Return(w)
  /\ UNCHANGED <<config, visibility, receipts, exitStatus, spawns, responses,
                 overrun>>

\* the command is not in the allowlist: make up the failure result
processMessage_Rejected(w) ==
  /\ pc[w] = "process"
  /\ \E cmd \in {parseMessage(message[Current(w)[1]].Body)} :
        /\ cmd # NoCommand
        /\ ~isCommandAllowed(cmd.command)
        /\ result' = [result EXCEPT ![w] = RejectionResult(cmd.command)]
        /\ delivery' = [delivery EXCEPT ![Current(w)] =
                          [@ EXCEPT !.gate = "rejected",
                                    !.publish = RespondNow(w).publish]]
        /\ pc' = [pc EXCEPT ![w] = RespondNow(w).pc]
  /\ UNCHANGED <<config, visibility, receipts, exitStatus, batch, spawns,
                 responses, overrun>>

\* the command is allowed, the log line before executeCommand throws
processMessage_LogThrows(w) ==
  /\ pc[w] = "process"
  /\ \E cmd \in {parseMessage(message[Current(w)[1]].Body)} :
        /\ cmd # NoCommand
        /\ isCommandAllowed(cmd.command)
        /\ JoinThrows(cmd)
  /\ delivery' = [delivery EXCEPT ![Current(w)] =
                    [@ EXCEPT !.gate = "allowed", !.finished = "threw"]]
  /\ Throw(w)
  /\ UNCHANGED <<config, visibility, receipts, exitStatus, spawns, responses,
                 overrun>>

\* faulty variant: a command already executed for the message is not
\* executed again, the later delivery waits for nothing
executeCommand_Spawn_once(w) ==
  /\ pc[w] = "process"
  /\ \E cmd \in {parseMessage(message[Current(w)[1]].Body)} :
        /\ cmd # NoCommand
        /\ isCommandAllowed(cmd.command)
        /\ ~JoinThrows(cmd)
        /\ spawns' = IF \E s \in spawns : s.delivery[1] = Current(w)[1]
                     THEN spawns
                     ELSE spawns \cup
                            {[delivery |-> Current(w), argv |-> SpawnArgv(cmd),
                              cwd |-> cmd.cwd]}
  /\ delivery' = [delivery EXCEPT ![Current(w)] = [@ EXCEPT !.gate = "allowed"]]
  /\ pc' = [pc EXCEPT ![w] = "running"]
  /\ UNCHANGED <<config, visibility, receipts, exitStatus, batch, result,
                 responses, overrun>>

\* the command is allowed, Bun.spawn starts the process
executeCommand_Spawn(w) ==
  /\ pc[w] = "process"
  /\ \E cmd \in {parseMessage(message[Current(w)[1]].Body)} :
        /\ cmd # NoCommand
        /\ isCommandAllowed(cmd.command)
        /\ ~JoinThrows(cmd)
        /\ spawns' = spawns \cup
             {[delivery |-> Current(w), argv |-> SpawnArgv(cmd),
               cwd |-> cmd.cwd]}
  /\ delivery' = [delivery EXCEPT ![Current(w)] = [@ EXCEPT !.gate = "allowed"]]
  /\ pc' = [pc EXCEPT ![w] = "running"]
  /\ UNCHANGED <<config, visibility, receipts, exitStatus, batch, result,
                 responses, overrun>>

\* the command is allowed, Bun.spawn throws: the catch of executeCommand
executeCommand_SpawnFails(w) ==
  /\ pc[w] = "process"
  /\ \E cmd \in {parseMessage(message[Current(w)[1]].Body)} :
        /\ cmd # NoCommand
        /\ isCommandAllowed(cmd.command)
        /\ ~JoinThrows(cmd)
        /\ spawns' = spawns \cup
             {[delivery |-> Current(w), argv |-> SpawnArgv(cmd),
               cwd |-> cmd.cwd]}
  /\ result' = [result EXCEPT ![w] = SpawnErrorResult(<<"ENOENT">>)]
  /\ delivery' = [delivery EXCEPT ![Current(w)] =
                    [@ EXCEPT !.gate = "allowed",
                              !.publish = RespondNow(w).publish]]
  /\ pc' = [pc EXCEPT ![w] = RespondNow(w).pc]
  /\ UNCHANGED <<config, visibility, receipts, exitStatus, batch, responses,
                 overrun>>

\* the process exits: stdout and stderr are read, the result is built
executeCommand_Exited(w) ==
  /\ pc[w] = "running"
  /\ \E o \in ProcessOutcomes :
       result' = [result EXCEPT ![w] = ExitResult(o[1], o[2], o[3])]
  /\ delivery' = [delivery EXCEPT ![Current(w)] =
                    [@ EXCEPT !.publish = RespondNow(w).publish]]
  /\ pc' = [pc EXCEPT ![w] = RespondNow(w).pc]
  /\ UNCHANGED <<config, visibility, receipts, exitStatus, batch, spawns,
                 responses, overrun>>

(***************************************************************************)
(* sendResponse, after its first await.                                    *)
(***************************************************************************)
\* faulty variant: sendResponse has no catch, its failure leaves
\* processMessage and ends in the catch of pollQueue
NotPublished_throws(w, why) ==
  /\ delivery' = [delivery EXCEPT ![Current(w)] =
                    [@ EXCEPT !.publish = why, !.finished = "threw"]]
  /\ Throw(w)
  /\ UNCHANGED <<config, visibility, receipts, exitStatus, spawns, responses,
                 overrun>>

\* sendResponse returns without a response sent: processMessage goes on
\* to its delete
NotPublished(w, why) ==
  /\ delivery' = [delivery EXCEPT ![Current(w)] = [@ EXCEPT !.publish = why]]
  /\ pc' = [pc EXCEPT ![w] = "delete"]
  /\ UNCHANGED <<config, visibility, receipts, exitStatus, batch, result,
                 spawns, responses, overrun>>

\* GetQueueUrlCommand returns the address of the response queue
sendResponse_GetQueueUrl(w) ==
  /\ pc[w] = "getQueueUrl"
  /\ pc' = [pc EXCEPT ![w] = "sendMessage"]
  /\ UNCHANGED <<config, visibility, receipts, exitStatus, batch, result,
                 delivery, spawns, responses, overrun>>

\* GetQueueUrlCommand throws (no such queue, network): caught and logged
sendResponse_GetQueueUrlFails(w) ==
  /\ pc[w] = "getQueueUrl"
  /\ NotPublished(w, "failed")

\* GetQueueUrlCommand returns no QueueUrl: logged, return
sendResponse_NoQueueUrl(w) ==
  /\ pc[w] = "getQueueUrl"
  /\ NotPublished(w, "failed")

\* SendMessageCommand succeeds
sendResponse_SendMessage(w) ==
  /\ pc[w] = "sendMessage"
  /\ LET correlationId == CorrelationIdOf(message[Current(w)[1]])
     IN responses' = responses \cup
          {[delivery |-> Current(w),
            MessageBody |-> ResponseBody(correlationId, result[w]),
            CorrelationId |-> correlationId]}
  /\ delivery' = [delivery EXCEPT ![Current(w)] = [@ EXCEPT !.publish = "sent"]]
  /\ pc' = [pc EXCEPT ![w] = "delete"]
  /\ UNCHANGED <<config, visibility, receipts, exitStatus, batch, result,
                 spawns, overrun>>

\* SendMessageCommand throws: caught and logged
sendResponse_SendMessageFails(w) ==
  /\ pc[w] = "sendMessage"
  /\ NotPublished(w, "failed")

(***************************************************************************)
(* processMessage: the delete of the message, on either path.              *)
(***************************************************************************)
\* DeleteMessageCommand was sent for the delivery of w
DeleteSent(w, removed) ==
  /\ delivery' = [delivery EXCEPT ![Current(w)] =
                    [@ EXCEPT !.deletes = @ + 1, !.deleted = removed,
                              !.finished = "returned"]]
  /\ Return(w)
  /\ UNCHANGED <<config, receipts, exitStatus, spawns, responses, overrun>>

\* faulty variant: the receipt handle reads as absent, no delete is sent
processMessage_Delete_skipped(w) ==
  /\ pc[w] = "delete"
  /\ delivery' = [delivery EXCEPT ![Current(w)] =
                    [@ EXCEPT !.finished = "returned"]]
  /\ Return(w)
  /\ UNCHANGED <<config, visibility, receipts, exitStatus, spawns, responses,
                 overrun>>

\* DeleteMessageCommand succeeds and SQS removes the message
processMessage_Delete(w) ==
  /\ pc[w] = "delete"
  /\ visibility' = [visibility EXCEPT ![Current(w)[1]] = "deleted"]
  /\ DeleteSent(w, TRUE)

\* DeleteMessageCommand succeeds with a receipt handle that is no longer
\* the latest one: SQS may leave the message in the queue
processMessage_DeleteStale(w) ==
  /\ pc[w] = "delete"
  /\ Current(w)[2] < receipts[Current(w)[1]]
  /\ UNCHANGED visibility
  /\ DeleteSent(w, FALSE)

\* DeleteMessageCommand throws: caught and logged
processMessage_DeleteFails(w) ==
  /\ pc[w] = "delete"
  /\ UNCHANGED visibility
  /\ DeleteSent(w, FALSE)

(***************************************************************************)
(* SQS: the visibility timeout of a received message lapses.               *)
(***************************************************************************)
\* the workers now processing the delivery d
Processing(d) ==
  {w \in Workers : pc[w] # "exited" /\ \E i \in 1..Len(batch[w]) : batch[w][i] = d}

VisibilityTimeout(m) ==
  /\ visibility[m] = "inflight"
  /\ visibility' = [visibility EXCEPT ![m] = "visible"]
  /\ overrun' = IF delivery[<<m, receipts[m]>>].finished = "no"
                THEN overrun \cup {m} ELSE overrun
  /\ UNCHANGED <<config, receipts, pc, exitStatus, batch, result, delivery,
                 spawns, responses>>

NextBatch ==
  \/ \E w \in Workers : main(w)
  \/ \E w \in Workers : main_Delay(w)
  \/ \E w \in Workers : Signal(w)
  \/ \E w \in Workers : pollQueue_Receive(w)
  \/ \E w \in Workers : pollQueue_Empty(w)
  \/ \E w \in Workers : pollQueue_ReceiveFails(w)
  \/ \E w \in Workers : processMessage_Invalid(w)
  \/ \E w \in Workers : processMessage_Rejected(w)
  \/ \E w \in Workers : processMessage_LogThrows(w)
  \/ \E w \in Workers : executeCommand_Spawn(w)
  \/ \E w \in Workers : executeCommand_SpawnFails(w)
  \/ \E w \in Workers : executeCommand_Exited(w)
  \/ \E w \in Workers : sendResponse_GetQueueUrl(w)
  \/ \E w \in Workers : sendResponse_GetQueueUrlFails(w)
  \/ \E w \in Workers : sendResponse_NoQueueUrl(w)
  \/ \E w \in Workers : sendResponse_SendMessage(w)
  \/ \E w \in Workers : sendResponse_SendMessageFails(w)
  \/ \E w \in Workers : processMessage_Delete(w)
  \/ \E w \in Workers : processMessage_DeleteFails(w)
  \/ \E m \in Messages : VisibilityTimeout(m)

\* with several workers a delete can come with a receipt handle that is
\* no longer the latest
Next ==
  \/ NextBatch
  \/ \E w \in Workers : processMessage_DeleteStale(w)

Spec == Init /\ [][Next]_vars

SpecBatch == InitBatch /\ [][NextBatch]_vars

SpecIds == InitIds /\ [][NextBatch]_vars

\* a step of worker w other than the handling of a signal
WorkerStep(w) ==
  \/ main(w)
  \/ main_Delay(w)
  \/ pollQueue_Receive(w)
  \/ pollQueue_Empty(w)
  \/ pollQueue_ReceiveFails(w)
  \/ processMessage_Invalid(w)
  \/ processMessage_Rejected(w)
  \/ processMessage_LogThrows(w)
  \/ executeCommand_Spawn(w)
  \/ executeCommand_SpawnFails(w)
  \/ executeCommand_Exited(w)
  \/ sendResponse_GetQueueUrl(w)
  \/ sendResponse_GetQueueUrlFails(w)
  \/ sendResponse_NoQueueUrl(w)
  \/ sendResponse_SendMessage(w)
  \/ sendResponse_SendMessageFails(w)
  \/ processMessage_Delete(w)
  \/ processMessage_DeleteFails(w)

\* one worker that keeps running: every await of the worker settles (the
\* timer fires, a call to SQS returns or throws, a spawned process ends);
\* no signal has to arrive
SpecFair ==
  /\ InitAlone
  /\ [][NextBatch]_vars
  /\ \A w \in OneWorker : WF_vars(WorkerStep(w))

(***************************************************************************)
(* The pure functions of the worker, each called on its own: the arguments *)
(* are drawn from bounded sets, an action applies the function.            *)
(***************************************************************************)
\* the strings over the characters A of length at most n
StringsOver(A, n) == UNION {[1..k -> A] : k \in 0..n}

\* commands: lower and upper case, white space, the path separator
GateChars == {"l", "s", "L", " ", "/"}

\* a prefix (in lower case) and a base name holding no "/": a long prefix
\* with a short name, or a short prefix with a long name
GateInputs ==
  (StringsOver(GateChars \ {"L"}, MaxLen)
     \X StringsOver(GateChars \ {"/"}, MaxLen - 1))
  \cup (StringsOver(GateChars \ {"L"}, MaxLen - 2)
          \X StringsOver(GateChars \ {"/"}, MaxLen))

\* a call of isCommandAllowed(prefix + "/" + base)
GateCalls ==
  {[fn |-> "isCommandAllowed", prefix |-> i[1], base |-> i[2], ret |-> <<>>] :
     i \in GateInputs}

\* message bodies: two letters, white space, the bracket of the old format
BodyChars == {"l", "s", " ", "]"}

BodyStrings == StringsOver(BodyChars, MaxLen + 2)

\* the body is the JSON text of a string
JsonStringBodies == {JsonBody(JString(t)) : t \in BodyStrings}

\* the body is JSON, neither a string nor an object: numbers, null, arrays
JsonOtherBodies ==
  {JsonBody(v) : v \in {JNumber(0), JNumber(7), JNull, JArray(<<>>),
                        JArray(<< <<"l","s">> >>)}}

\* the body is the JSON text of an object: command absent, null, a number,
\* an array or a string; args absent, an array or a string; cwd absent or set
JsonObjectBodies ==
  {JsonBody(JObject(c, a, d)) :
     c \in {Undefined, JNull, JNumber(7), JArray(<< <<"l","s">> >>)}
            \cup {JString(t) : t \in StringsOver(BodyChars, MaxLen)}
            \cup {JString(<<"l","s"," ","-","l">>)},
     a \in {Undefined, JArray(<< <<"-","l">> >>), JString(<<"-","l">>)},
     d \in {Undefined, JString(<<"/">>)}}

\* the body is no JSON: plain text (no text over BodyChars is JSON), and
\* text of the old format, "[command=...", with and without a closing bracket
PlainBodies == {TextBody(t) : t \in BodyStrings}

PatternBodies ==
  {TextBody(p \o CommandEq \o t) :
     p \in {<<>>, <<"j","o","b"," ","[">>}, t \in BodyStrings}

ParseCalls ==
  {[fn |-> "parseMessage", body |-> b, ret |-> <<>>] :
     b \in JsonStringBodies \cup JsonOtherBodies \cup JsonObjectBodies
            \cup PlainBodies \cup PatternBodies}

\* what a process writes: a letter, and the characters JSON escapes
OutputChars == {"o", Quote, Backslash}

\* the exit codes of a process: one digit and more
ExitCodes == {0, 1, 2, 127}

\* the execution results: of a process that ended, of a failed spawn (with
\* and without a message), of a rejected command
ExecutionResults ==
  {ExitResult(c, o, e) : c \in ExitCodes,
                         o \in StringsOver(OutputChars, MaxLen - 1),
                         e \in StringsOver(OutputChars, MaxLen - 1)}
  \cup {SpawnErrorResult(e) : e \in StringsOver(OutputChars, MaxLen - 1)}
  \cup {RejectionResult(c) : c \in StringsOver(OutputChars, MaxLen - 1)}

ResponseCalls ==
  {[fn |-> "sendResponse", correlationId |-> "corr", result |-> r,
    ret |-> <<>>] : r \in ExecutionResults}

\* executeCommand(cmd) as processMessage calls it: cmd is what parseMessage
\* made of a body in the object form, and the log line before did not throw
ExecuteCalls ==
  {[fn |-> "executeCommand", body |-> b, ret |-> <<>>] :
     b \in {o \in JsonObjectBodies :
              /\ parseMessage(o) # NoCommand
              /\ ~JoinThrows(parseMessage(o))}}

InitPure ==
  /\ call \in GateCalls \cup ParseCalls \cup ResponseCalls \cup ExecuteCalls
  /\ QUEUE_URL = <<>>
  /\ RESPONSE_QUEUE_NAME = <<>>
  /\ message = <<>>
  /\ pc = <<>>
  /\ visibility = <<>>
  /\ receipts = <<>>
  /\ exitStatus = <<>>
  /\ batch = <<>>
  /\ result = <<>>
  /\ delivery = <<>>
  /\ spawns = {}
  /\ responses = {}
  /\ overrun = {}

\* all but the call
system == <<QUEUE_URL, RESPONSE_QUEUE_NAME, message, visibility, receipts, pc,
            exitStatus, batch, result, delivery, spawns, responses, overrun>>

Call_isCommandAllowed ==
  /\ call.fn = "isCommandAllowed"
  /\ call' = [call EXCEPT
                !.ret = <<isCommandAllowed(call.prefix \o <<"/">> \o call.base)>>]
  /\ UNCHANGED system

Call_parseMessage ==
  /\ call.fn = "parseMessage"
  /\ call' = [call EXCEPT !.ret = <<parseMessage(call.body)>>]
  /\ UNCHANGED system

\* sendResponse up to the body it sends
Call_sendResponse ==
  /\ call.fn = "sendResponse"
  /\ call' = [call EXCEPT
                !.ret = <<Stringify(ResponseBody(call.correlationId,
                                                 call.result))>>]
  /\ UNCHANGED system

\* executeCommand up to the argument vector it hands to Bun.spawn
Call_executeCommand ==
  /\ call.fn = "executeCommand"
  /\ call' = [call EXCEPT !.ret = <<SpawnArgv(parseMessage(call.body))>>]
  /\ UNCHANGED system

NextPure ==
  \/ Call_isCommandAllowed
  \/ Call_parseMessage
  \/ Call_sendResponse
  \/ Call_executeCommand

SpecPure == InitPure /\ [][NextPure]_vars

(***************************************************************************)
(* Vocabulary of the properties.                                           *)
(***************************************************************************)
\* the command of m fails the allowlist gate
Rejected(m) ==
  LET cmd == parseMessage(message[m].Body)
  IN cmd # NoCommand /\ ~isCommandAllowed(cmd.command)

\* the executable token with any leading path stripped
PathStripped(executable) == Last(SplitChar(executable, "/"))

SpawnsOf(m) == {s \in spawns : s.delivery[1] = m}

ResponsesOf(m) == {r \in responses : r.delivery[1] = m}

\* the publication attempt of a delivery is over
PublishOver(d) ==
  delivery[d].publish \in {"sent", "failed", "noCorrelationId", "notConfigured"}

\* processMessage passed the gate, either way, and is over
Gated(d) == delivery[d].gate \in {"allowed", "rejected"}

\* C1: a message whose command the allowlist gate rejects is never handed to
\* spawn, and every response published for it has success false, exitCode 1
C1_RejectedNeverSpawned ==
  \A m \in Messages :
    Rejected(m) =>
      /\ SpawnsOf(m) = {}
      /\ \A r \in ResponsesOf(m) :
           r.MessageBody.success = FALSE /\ r.MessageBody.exitCode = 1

C1_Witness ==
  \E m \in Messages : Rejected(m) /\ ResponsesOf(m) # {}

\* C2: every executable handed to spawn is, path stripped, in the allowlist,
\* and is the base command the gate approved
C2_SpawnedIsAllowlisted ==
  \A s \in spawns :
    /\ PathStripped(s.argv[1]) \in ALLOWLIST
    /\ PathStripped(s.argv[1])
         = BaseCommand(parseMessage(message[s.delivery[1]].Body).command)

\* C3: a delivery that passed the gate (allowed or rejected) and whose
\* processMessage is over has had exactly one delete request, and no
\* delivery ever has two
C3_ExactlyOneDelete ==
  \A d \in Deliveries :
    /\ delivery[d].deletes <= 1
    /\ (Gated(d) /\ delivery[d].finished # "no") => delivery[d].deletes = 1

\* C4: the delete request of a delivery is issued only once its response
\* publication attempt is over (sent, failed or skipped)
C4_DeleteAfterPublish ==
  \A d \in Deliveries : delivery[d].deletes > 0 => PublishOver(d)

C4_Witness ==
  \E d \in Deliveries : delivery[d].deletes > 0 /\ delivery[d].publish = "sent"

\* C5: a message parseMessage gives no descriptor for gets no response and
\* no delete request, and stays in the queue to be received again
C5_ParseFailureKeepsMessage ==
  \A m \in Messages :
    parseMessage(message[m].Body) = NoCommand =>
      /\ visibility[m] # "deleted"
      /\ ResponsesOf(m) = {}
      /\ \A h \in 1..MaxDeliveries :
           /\ delivery[<<m, h>>].deletes = 0
           /\ delivery[<<m, h>>].publish = "none"

C5_Witness ==
  \E m \in Messages :
    /\ parseMessage(message[m].Body) = NoCommand
    /\ delivery[<<m, 1>>].finished = "returned"
    /\ receipts[m] = 2

\* C6: a publication that failed or was skipped does not stop the delete:
\* the worker is at its delete next, and when processMessage is over the
\* delivery has had its one delete request (unless a signal ended the worker)
C6_PublishFailureStillDeletes ==
  \A d \in Deliveries :
    delivery[d].publish \in {"failed", "notConfigured"} =>
      LET w == delivery[d].worker
      IN \/ delivery[d].finished = "returned" /\ delivery[d].deletes = 1
         \/ /\ delivery[d].finished = "no"
            /\ exitStatus[w] # "running" \/ (pc[w] = "delete" /\ Current(w) = d)

C6_Witness ==
  \E d \in Deliveries :
    /\ delivery[d].publish = "failed"
    /\ delivery[d].finished = "returned"
    /\ delivery[d].deletes = 1

\* C7 as claimed: once processMessage has handled a rejected message, the
\* message is never received again
C7_RejectedNeverRedelivered ==
  [][\A d \in Deliveries :
       (delivery[d].gate = "rejected" /\ delivery[d].finished = "returned")
         => receipts'[d[1]] = receipts[d[1]]]_vars

\* C7 as amended: a rejected delivery whose processMessage is over has had
\* exactly one delete request, and once that delete removed the message it
\* is gone from the queue for good and never received again
C7_RejectedDeletedOnce ==
  /\ [](\A d \in Deliveries :
          (delivery[d].gate = "rejected" /\ delivery[d].finished = "returned")
            => /\ delivery[d].deletes = 1
               /\ delivery[d].deleted => visibility[d[1]] = "deleted")
  /\ [][\A d \in Deliveries :
          (/\ delivery[d].gate = "rejected"
           /\ delivery[d].finished = "returned"
           /\ delivery[d].deleted)
            => receipts'[d[1]] = receipts[d[1]]]_vars

C7_Witness ==
  \E d \in Deliveries :
    /\ delivery[d].gate = "rejected"
    /\ delivery[d].finished = "returned"
    /\ delivery[d].deleted

\* the workers processing some delivery of m
ProcessingMessage(m) == UNION {Processing(<<m, h>>) : h \in 1..MaxDeliveries}

\* some delete request for m did not remove it
DeleteFailed(m) ==
  \E h \in 1..MaxDeliveries :
    delivery[<<m, h>>].deletes > 0 /\ ~delivery[<<m, h>>].deleted

InFlight(w) ==
  {d \in Deliveries : delivery[d].worker = w /\ delivery[d].finished = "no"}

\* C9: a worker has at most one message in flight: a receive hands it at
\* most one message, and it is at its next receive only when processMessage
\* is over for every message it received before
C9_OneMessageInFlight ==
  \A w \in Workers :
    /\ Len(batch[w]) <= 1
    /\ Cardinality(InFlight(w)) <= 1
    /\ pc[w] = "poll" => InFlight(w) = {} /\ batch[w] = <<>>

\* a worker is busy with one message while another waits, visible
C9_Witness ==
  \E w \in Workers : \E d \in InFlight(w) : \E m \in Messages :
    /\ pc[w] # "exited"
    /\ m # d[1]
    /\ visibility[m] = "visible"

\* everything worker w has issued: its receives, spawns, responses, deletes
Issued(w) ==
  <<{<<d, delivery[d].deletes>> : d \in {e \in Deliveries : delivery[e].worker = w}},
    {s \in spawns : delivery[s.delivery].worker = w},
    {r \in responses : delivery[r.delivery].worker = w}>>

\* C10: a termination signal ends the process at once, whatever it was
\* doing; the worker then issues no receive, spawn, publish or delete, and
\* the exit itself neither deletes nor releases its message in flight
C10_SignalExitsAtOnce ==
  [][\A w \in Workers :
       /\ (exitStatus[w] = "running" /\ exitStatus'[w] = "0")
            => /\ pc'[w] = "exited"
               /\ visibility' = visibility
               /\ Issued(w)' = Issued(w)
       /\ exitStatus[w] = "0" => Issued(w)' = Issued(w) /\ pc'[w] = "exited"]_vars

\* a worker was signalled while its message was in flight, and the message
\* has been delivered again
C10_Witness ==
  \E w \in Workers :
    /\ exitStatus[w] = "0"
    /\ batch[w] # <<>>
    /\ receipts[Current(w)[1]] > Current(w)[2]

\* C11: with no address of the input queue main exits with status 1 before
\* the loop: the worker is never at a receive, and no receive, spawn,
\* response or delete is ever issued
C11_NoAddressExitsBeforeLoop ==
  QUEUE_URL = <<>> =>
    /\ \A w \in Workers :
         \/ pc[w] = "start" /\ exitStatus[w] = "running"
         \/ pc[w] = "exited" /\ exitStatus[w] = "1"
    /\ \A m \in Messages : receipts[m] = 0 /\ visibility[m] = "visible"
    /\ \A d \in Deliveries : delivery[d] = NoDelivery
    /\ spawns = {}
    /\ responses = {}

C11_Witness ==
  /\ QUEUE_URL = <<>>
  /\ \A w \in Workers : pc[w] = "exited" /\ exitStatus[w] = "1"

C13_SuccessIffExitCodeZero ==
  /\ [](\A w \in Workers :
          result[w] # Undefined =>
            /\ result[w].success <=> result[w].exitCode = 0
            /\ delivery[Current(w)].gate = "rejected" =>
                 /\ result[w].success = FALSE
                 /\ result[w].exitCode = 1
                 /\ result[w].output = <<>>)
  /\ [](\A r \in responses :
          r.MessageBody.success <=> r.MessageBody.exitCode = 0)
  /\ [][\A w \in Workers :
          (/\ pc[w] = "process"
           /\ result'[w] # Undefined
           /\ delivery'[Current(w)].gate = "allowed")
            => /\ result'[w].success = FALSE
               /\ result'[w].exitCode = 1
               /\ result'[w].output = <<>>
               /\ Truthy(result'[w].error)]_vars

\* a response tells of a process that ended with a code other than 0, and a
\* worker holds the result of a failed spawn
C13_Witness ==
  /\ \E r \in responses :
       r.MessageBody.exitCode \notin {0, 1} /\ r.MessageBody.success = FALSE
  /\ \E w \in Workers :
       /\ result[w] # Undefined
       /\ result[w] = SpawnErrorResult(result[w].error.val)

RECURSIVE Tokens(_)
Tokens(s) ==
  LET t == TrimStart(s)
  IN IF t = <<>> THEN <<>>
     ELSE LET token == TakeUntil(t, WhiteSpace)
          IN <<token>> \o Tokens(DropFirst(t, Len(token)))

\* parseMessage has returned for a body that is a JSON string
ParsedJsonString ==
  /\ call.fn = "parseMessage"
  /\ call.ret # <<>>
  /\ call.body.json
  /\ call.body.value.kind = "string"

\* C15: for a body that is a JSON string holding tokens, parseMessage gives
\* the descriptor with the first token as command, the other tokens in their
\* order as args, and no working directory
C15_JsonStringTokenized ==
  (ParsedJsonString /\ Tokens(call.body.value.val) # <<>>) =>
    LET tokens == Tokens(call.body.value.val)
    IN call.ret[1] = CommandMessage(Head(tokens), JArray(Tail(tokens)), Undefined)

\* the body "s  l]" gave command "s" and args ["l]"], the body "s l ]"
\* command "s" and args ["l", "]"]
C15_Witness ==
  /\ ParsedJsonString
  /\ call.body.value.val = <<"s"," ","l"," ","]">>
  /\ call.ret[1].kind = "command"
  /\ call.ret[1].command = <<"s">>
  /\ call.ret[1].args = JArray(<< <<"l">>, <<"]">> >>)

\* sendResponse has made the body of a response
Serialized == call.fn = "sendResponse" /\ call.ret # <<>>

\* C16 as claimed: decoding the body gives back success, exitCode, stdout and
\* stderr as the execution result has them, an absent stderr as absent
C16_RoundTripIdentical ==
  Serialized =>
    LET decoded == ParseResponse(call.ret[1])
    IN /\ decoded.success = call.result.success
       /\ decoded.exitCode = call.result.exitCode
       /\ decoded.stdout = call.result.output
       /\ JString(decoded.stderr) = call.result.error

\* C16 as amended: decoding the body gives back success, exitCode and stdout
\* as the execution result has them, and its stderr when it has one; an
\* absent stderr comes back as the empty string
C16_RoundTripAbsentAsEmpty ==
  Serialized =>
    LET decoded == ParseResponse(call.ret[1])
    IN /\ decoded.success = call.result.success
       /\ decoded.exitCode = call.result.exitCode
       /\ decoded.stdout = call.result.output
       /\ decoded.correlationId = call.correlationId
       /\ decoded.stderr = IF call.result.error = Undefined THEN <<>>
                           ELSE call.result.error.val

\* a result with no stderr and one with quotes and backslashes in its
\* output were serialized
C16_Witness ==
  /\ Serialized
  /\ \/ call.result.error = Undefined /\ call.result.exitCode = 127
     \/ /\ call.result.output = <<Quote, Backslash>>
        /\ call.result.error = JString(<<Backslash, Quote>>)

\* C17: when pollQueue returns after a received message was processed to
\* its delete, the worker is at its next receive without the idle delay; it
\* waits the delay only after a receive that gave no message
C17_DelayOnlyWhenIdle ==
  [][\A w \in Workers :
       (pc[w] = "delete" /\ pc'[w] \notin {"delete", "exited"})
         => pc'[w] = "poll"]_vars

\* the body is JSON and is neither a string nor an object with a command
\* that is a string and not empty
JsonWithoutCommand(body) ==
  /\ body.json
  /\ body.value.kind # "string"
  /\ ~(/\ body.value.kind = "object"
        /\ body.value.command.kind = "string"
        /\ body.value.command.val # <<>>)

\* C18: a body that is JSON without a usable command (a number, an array,
\* null, an object without a string command) gives no descriptor: the plain
\* text fallback is for bodies that are no JSON only
C18_FallbackOnlyForNonJson ==
  (call.fn = "parseMessage" /\ call.ret # <<>> /\ JsonWithoutCommand(call.body))
    => call.ret[1] = NoCommand

\* C19: a descriptor parseMessage returns has a command that is not empty,
\* whatever the shape of the body; a body that holds no command gives no
\* descriptor
C19_CommandNeverEmpty ==
  (call.fn = "parseMessage" /\ call.ret # <<>> /\ call.ret[1] # NoCommand)
    => call.ret[1].command # <<>>

\* the command of delivery d was handed to spawn
Executed(d) == \E s \in spawns : s.delivery = d

\* C20: nothing keeps the visibility timeout of a message from lapsing
\* while its command runs; every delivery that passes the gate is executed
\* on its own, whether or not the message was executed before; and every
\* executed delivery whose processMessage is over has had its publication
\* attempt and its one delete request
C20_RedeliveryExecutesAgain ==
  /\ \A w \in Workers :
       (pc[w] = "running" /\ visibility[Current(w)[1]] = "inflight")
         => ENABLED VisibilityTimeout(Current(w)[1])
  /\ \A d \in Deliveries :
       /\ (delivery[d].gate = "allowed" /\ delivery[d].finished # "threw")
            => Executed(d)
       /\ (Executed(d) /\ delivery[d].finished = "returned")
            => PublishOver(d) /\ delivery[d].deletes = 1

\* the command of the first delivery of a message still runs, its
\* visibility timeout has lapsed, and the second delivery of the message
\* has been executed by the other worker, answered and deleted
C20_Witness ==
  \E m \in overrun : \E w \in Workers :
    /\ pc[w] = "running"
    /\ Current(w) = <<m, 1>>
    /\ Executed(<<m, 1>>)
    /\ Executed(<<m, 2>>)
    /\ delivery[<<m, 2>>].worker # w
    /\ delivery[<<m, 2>>].publish = "sent"
    /\ delivery[<<m, 2>>].deletes = 1

\* C21: for a message in the object form the program spawned is the first
\* token of command; without args in the message the other tokens of
\* command are its arguments, with args in the message these are its
\* arguments, unchanged and in order
C21_CommandTokensAreArguments ==
  LET tokens == Tokens(call.body.value.command.val)
      args   == call.body.value.args
  IN (call.fn = "executeCommand" /\ call.ret # <<>> /\ tokens # <<>>) =>
       call.ret[1] = IF args = Undefined THEN tokens
                     ELSE <<Head(tokens)>> \o args.items

\* C22: a worker that a termination signal ended has no message in flight
\* (the processing of the message it held was over: parsed and left, or
\* answered and acknowledged), and once ended it issues no receive
C22_InFlightFinishesBeforeExit ==
  /\ [](\A w \in Workers : exitStatus[w] = "0" => InFlight(w) = {})
  /\ [][\A w \in Workers :
         exitStatus[w] = "0" => pc'[w] = "exited" /\ batch'[w] = batch[w]]_vars

\* the message has neither a CorrelationId attribute nor a MessageId
Anonymous(m) == message[m].CorrelationId = "" /\ message[m].MessageId = ""

\* C23: a published response carries, in its body and in its CorrelationId
\* attribute alike, the CorrelationId attribute of the request it answers
\* or, without one, the MessageId of that request; a request with neither
\* is never answered, yet once its processMessage is over past the gate it
\* was rejected or executed, and its delete was requested once
C23_ResponseCarriesRequestId ==
  /\ \A r \in responses :
       LET request == message[r.delivery[1]]
       IN /\ r.MessageBody.correlationId = r.CorrelationId
          /\ r.CorrelationId # ""
          /\ r.CorrelationId = IF request.CorrelationId # ""
                               THEN request.CorrelationId
                               ELSE request.MessageId
  /\ \A d \in Deliveries :
       Anonymous(d[1]) =>
         /\ ResponsesOf(d[1]) = {}
         /\ delivery[d].publish \in {"none", "noCorrelationId"}
         /\ (Gated(d) /\ delivery[d].finished = "returned") =>
              /\ delivery[d].publish = "noCorrelationId"
              /\ delivery[d].deletes = 1
              /\ delivery[d].gate = "allowed" <=> Executed(d)

\* the request with neither id was executed and acknowledged with no
\* response, and the other request was answered with its own CorrelationId
C23_Witness ==
  /\ Anonymous("m1")
  /\ \E d \in Deliveries :
       /\ d[1] = "m1" /\ Executed(d) /\ delivery[d].deleted
       /\ delivery[d].publish = "noCorrelationId"
  /\ \E r \in responses :
       r.delivery[1] = "m2" /\ r.CorrelationId = "corr2"

====
